---- MODULE Spec2Model ----
(***************************************************************************)
(* The value printer of src/libexpr/print.cc.                              *)
(*                                                                         *)
(* Two state machines share this module:                                   *)
(*   SpecStr  - printLiteralString, one loop iteration per step, with the  *)
(*              positions of the string_view it dereferences;              *)
(*   Spec     - Printer::print(Value &), as a machine over the C++ call    *)
(*              stack (print, printAttrs, printList, printDerivation), the *)
(*              heap of values, the output stream and the exception in     *)
(*              flight.  FairSpec is Spec with weak fairness: the printer  *)
(*              is a single thread that keeps running.                     *)
(* Colours are off (options.ansiColors = false) throughout.                *)
(***************************************************************************)
EXTENDS Integers, Sequences, FiniteSets, TLC

VARIABLES
    \* ---- printLiteralString ----
    string,         \* the string_view argument, a sequence of characters
    maxLength,      \* the maxLength argument
    i,              \* the iterator, as a 1-based position; Len(string)+1 is end()
    charsPrinted,   \* the local counter
    str,            \* what has been written to the stream
    reads,          \* positions of the string_view dereferenced so far
    spc,            \* "idle" | "begin" | "loop" | "done"
    \* ---- Printer ----
    graph,          \* the heap: Value identity -> Value
    options,        \* PrintOptions
    stack,          \* the call stack, innermost frame last
    output,         \* the output stream
    seen,           \* std::optional<ValuesSeen>
    attrsPrinted,   \* Printer::attrsPrinted
    listItemsPrinted, \* Printer::listItemsPrinted
    exc,            \* the exception being thrown: "none" | "Interrupted" | "EvalError"
    status,         \* "idle" | "init" | "running" | "done" | "escaped"
    events          \* history: how each container visit was rendered

strVars  == <<string, maxLength, i, charsPrinted, str, reads, spc>>
treeVars == <<graph, options, stack, output, seen, attrsPrinted, listItemsPrinted,
              exc, status, events>>
vars     == <<strVars, treeVars>>

(***************************************************************************)
(* Bounds of the model and the sentinel of the program.                    *)
(***************************************************************************)
\* std::numeric_limits<size_t>::max(), the "unbounded" value of a count
\* option.  The model only compares it with counters and with itself, so the
\* largest integer TLC represents stands for it.
SIZE_MAX == 2147483647

MaxStrLen    == 3   \* longest string given to printLiteralString
MaxLengthOpt == 3   \* largest finite maxStringLength tried
MaxDepthOpt  == 2   \* largest finite maxDepth tried
MaxAttrsOpt  == 2   \* largest finite maxAttrs tried
MaxItemsOpt  == 2   \* largest finite maxListItems tried
MaxStack     == 9   \* call-stack frames after which a call is not modelled

(***************************************************************************)
(* Output tokens.  A token is a piece of text; the elision notice carries  *)
(* the number it prints as an unsigned int.                                *)
(***************************************************************************)
\* An unsigned int (32 bits) as two 16-bit limbs: value = hi * 2^16 + lo.
\* d is the mathematical value of a size_t expression; the conversion to
\* unsigned int keeps it modulo 2^32.
ToUnsigned32(d) ==
    LET lo == d % 65536
        q  == (d - lo) \div 65536
    IN  [hi |-> q % 65536, lo |-> lo]

Zero32 == [hi |-> 0, lo |-> 0]
One32  == [hi |-> 0, lo |-> 1]

Lit(s) == [text |-> s, n |-> Zero32, unit |-> ""]

\* english.hh pluralize(output, count, single, plural): the count, a space and
\* the singular word iff the count is 1.
pluralize(count, single, plural) ==
    [text |-> "elided", n |-> count, unit |-> IF count = One32 THEN single ELSE plural]

\* printElided(output, value, single, plural, ansiColors)
printElided(value, single, plural) ==
    << pluralize(ToUnsigned32(value), single, plural) >>

(***************************************************************************)
(* printLiteralString                                                      *)
(***************************************************************************)
Chars == {"a", "\"", "\\", "\n", "$", "{"}
NUL   == "NUL"

Strings == UNION { [1..n -> Chars] : n \in 0..MaxStrLen }

\* The mutant: the limit test off by one.
LimitReachedOffByOne(printed, max) == printed > max

\* line 39: charsPrinted >= maxLength
LimitReached(printed, max) == printed >= max

\* lines 45-50: the text written for the character c, where la is what
\* *(i+1) yields when it is read.
Escape(c, la) ==
    IF c = "\"" \/ c = "\\" THEN << Lit("\\"), Lit(c) >>
    ELSE IF c = "\n" THEN << Lit("\\"), Lit("n") >>
    ELSE IF c = "$" /\ la = "{" THEN << Lit("\\"), Lit(c) >>
    ELSE << Lit(c) >>

\* The positions dereferenced by lines 45-49 with the iterator at p: *i always,
\* *(i+1) when the chain of comparisons reaches the right operand of &&.
ReadsAt(s, p) == IF s[p] = "$" THEN {p, p + 1} ELSE {p}

\* What *(i+1) can yield: the character there, or, one past the end of the
\* string_view, whatever byte the build has after it.
LookAhead(s, p) == IF p + 1 <= Len(s) THEN {s[p + 1]} ELSE Chars \cup {NUL}

InitStr ==
    /\ string \in Strings
    /\ maxLength \in (0..MaxLengthOpt) \cup {SIZE_MAX}
    /\ i = 1
    /\ charsPrinted = 0
    /\ str = << >>
    /\ reads = {}
    /\ spc = "begin"
    /\ graph = << >>
    /\ options = [force |-> FALSE, derivationPaths |-> FALSE, trackRepeated |-> FALSE,
                  maxDepth |-> 0, maxAttrs |-> 0, maxListItems |-> 0]
    /\ stack = << >>
    /\ output = << >>
    /\ seen = [engaged |-> FALSE, values |-> {}]
    /\ attrsPrinted = 0
    /\ listItemsPrinted = 0
    /\ exc = "none"
    /\ status = "idle"
    /\ events = << >>

\* line 37: the opening quote
LitBegin ==
    /\ spc = "begin"
    /\ str' = << Lit("\"") >>
    /\ spc' = "loop"
    /\ UNCHANGED <<string, maxLength, i, charsPrinted, reads, treeVars>>

\* lines 39-43: the limit is reached with characters left
LitElide ==
    /\ spc = "loop"
    /\ i <= Len(string)
    /\ LimitReached(charsPrinted, maxLength)
    /\ str' = str \o << Lit("\""), Lit(" ") >>
                  \o printElided(Len(string) - charsPrinted, "byte", "bytes")
    /\ spc' = "done"
    /\ UNCHANGED <<string, maxLength, i, charsPrinted, reads, treeVars>>

\* lines 45-51: one character
LitChar ==
    /\ spc = "loop"
    /\ i <= Len(string)
    /\ ~LimitReached(charsPrinted, maxLength)
    /\ \E la \in LookAhead(string, i) :
          str' = str \o Escape(string[i], la)
    /\ reads' = reads \cup ReadsAt(string, i)
    /\ charsPrinted' = charsPrinted + 1
    /\ i' = i + 1
    /\ UNCHANGED <<string, maxLength, spc, treeVars>>

\* line 53: the closing quote
LitEnd ==
    /\ spc = "loop"
    /\ i > Len(string)
    /\ str' = str \o << Lit("\"") >>
    /\ spc' = "done"
    /\ UNCHANGED <<string, maxLength, i, charsPrinted, reads, treeVars>>

NextStr == LitBegin \/ LitElide \/ LitChar \/ LitEnd

SpecStr == InitStr /\ [][NextStr]_vars

(***************************************************************************)
(* Attribute names and their order                                         *)
(***************************************************************************)
\* The characters of the attribute names used, as their ASCII codes.
KeyCodes(k) ==
    CASE k = "Z"     -> << 90 >>
      [] k = "_type" -> << 95, 116, 121, 112, 101 >>
      [] k = "a"     -> << 97 >>
      [] k = "b"     -> << 98 >>
      [] k = "c"     -> << 99 >>
      [] k = "type"  -> << 116, 121, 112, 101 >>
      [] k = "x"     -> << 120 >>
      [] k = "y"     -> << 121 >>
      [] k = "z"     -> << 122 >>

\* std::string operator<: lexicographic on the characters
RECURSIVE LexLess(_, _)
LexLess(s, t) ==
    IF t = << >> THEN FALSE
    ELSE IF s = << >> THEN TRUE
    ELSE IF Head(s) < Head(t) THEN TRUE
    ELSE IF Head(t) < Head(s) THEN FALSE
    ELSE LexLess(Tail(s), Tail(t))

StringLess(a, b) == LexLess(KeyCodes(a), KeyCodes(b))

\* line 136
isImportantAttrName(attrName) == attrName = "type" \/ attrName = "_type"

\* std::pair<std::string, Value *> operator<, used by std::sort at line 280:
\* the name first, the pointer second.
PairLess(lhs, rhs) ==
    \/ StringLess(lhs[1], rhs[1])
    \/ (~StringLess(rhs[1], lhs[1]) /\ lhs[2] < rhs[2])

\* The mutant: the negation of the importance flags lost, so that important
\* names sort last.
ImportantLastAttrNameCmp(lhs, rhs) ==
    LET lhsIsImportant == isImportantAttrName(lhs[1])
        rhsIsImportant == isImportantAttrName(rhs[1])
    IN  \/ (~lhsIsImportant /\ rhsIsImportant)
        \/ (lhsIsImportant = rhsIsImportant /\ StringLess(lhs[1], rhs[1]))

\* lines 143-153: tuple (!lhsIsImportant, lhs.first) < (!rhsIsImportant,
\* rhs.first), with false < true
ImportantFirstAttrNameCmp(lhs, rhs) ==
    LET lhsIsImportant == isImportantAttrName(lhs[1])
        rhsIsImportant == isImportantAttrName(rhs[1])
    IN  \/ (~(~lhsIsImportant) /\ ~rhsIsImportant)
        \/ ((~lhsIsImportant) = (~rhsIsImportant) /\ StringLess(lhs[1], rhs[1]))

\* lines 279-282: the comparison std::sort is given
SortLess(maxAttrs, lhs, rhs) ==
    IF maxAttrs = SIZE_MAX THEN PairLess(lhs, rhs)
    ELSE ImportantFirstAttrNameCmp(lhs, rhs)

\* std::sort: the elements of S in the order of the comparison
RECURSIVE SortPairs(_, _)
SortPairs(S, maxAttrs) ==
    IF S = {} THEN << >>
    ELSE LET m == CHOOSE x \in S : \A y \in S \ {x} : ~SortLess(maxAttrs, y, x)
         IN  << m >> \o SortPairs(S \ {m}, maxAttrs)

(***************************************************************************)
(* Values                                                                  *)
(*                                                                         *)
(* A Value is identified by its address, a number from 1; 0 is a null      *)
(* pointer in a list.  kind is v.type() once the value is forced: "int",   *)
(* "attrs" or "list".  thunk tells what forcing does: "none" (the value is *)
(* already forced), "ok" (forceValue overwrites the thunk in place with    *)
(* the value) or "fail" (forceValue throws an EvalError).  isDrv is what   *)
(* state.isDerivation(v) answers, and drvPath what coerceToStorePath does  *)
(* with the drvPath attribute: "none" (no such attribute), "ok" or "fail". *)
(***************************************************************************)
IntV == [kind |-> "int", thunk |-> "none", attrs |-> {}, items |-> << >>,
         isDrv |-> FALSE, drvPath |-> "none"]

AttrsV(bindings) == [IntV EXCEPT !.kind = "attrs", !.attrs = bindings]

ListV(elems) == [IntV EXCEPT !.kind = "list", !.items = elems]

DrvV(bindings, path) == [AttrsV(bindings) EXCEPT !.isDrv = TRUE, !.drvPath = path]

Thunk(v, how) == [v EXCEPT !.thunk = how]

\* The value graphs printed.  The root is value 1.
Graphs == {
    \* nested attribute sets
    << AttrsV({<<"a", 2>>, <<"b", 3>>, <<"c", 3>>}), AttrsV({<<"x", 3>>, <<"y", 3>>}), IntV >>,
    \* nested lists, with a null pointer
    << ListV(<<2, 3, 0>>), ListV(<<3, 3, 3>>), IntV >>,
    \* an attribute set that contains itself
    << AttrsV({<<"a", 1>>, <<"b", 2>>}), IntV >>,
    \* a list that contains itself through an attribute set
    << ListV(<<2, 3>>), AttrsV({<<"a", 1>>}), IntV >>,
    \* a list that contains itself
    << ListV(<<1, 2>>), IntV >>,
    \* a thunk that fails, in a list, in an attribute set
    << AttrsV({<<"a", 2>>, <<"z", 4>>}), ListV(<<3, 4, 5>>), Thunk(IntV, "fail"), IntV,
       Thunk(AttrsV({<<"x", 4>>}), "ok") >>,
    \* one attribute set reached at two depths
    << AttrsV({<<"a", 2>>, <<"c", 3>>}), AttrsV({<<"b", 3>>}), AttrsV({<<"x", 4>>}), IntV >>,
    \* one list reached at two depths
    << ListV(<<2, 3>>), ListV(<<3>>), ListV(<<4>>), IntV >>,
    \* derivations: with a store path, without, and with one that fails
    << DrvV({<<"type", 2>>}, "ok"), IntV >>,
    << DrvV({<<"type", 2>>}, "none"), IntV >>,
    << AttrsV({<<"a", 2>>, <<"b", 3>>}), DrvV({<<"type", 3>>}, "fail"), IntV >>,
    \* names on both sides of the important ones
    << AttrsV({<<"Z", 2>>, <<"_type", 2>>, <<"a", 2>>, <<"type", 2>>, <<"z", 2>>}), IntV >>,
    \* the empty list, twice in a list, and the empty attribute set
    << ListV(<<2, 2, 3, 3>>), ListV(<< >>), AttrsV({}) >>,
    \* a root that is a thunk
    << Thunk(ListV(<<2>>), "ok"), Thunk(IntV, "ok") >>,
    << Thunk(IntV, "fail") >>
}

Counts(max) == (0..max) \cup {SIZE_MAX}

OptionSets ==
    [force : BOOLEAN, derivationPaths : BOOLEAN, trackRepeated : BOOLEAN,
     maxDepth : Counts(MaxDepthOpt), maxAttrs : Counts(MaxAttrsOpt),
     maxListItems : Counts(MaxItemsOpt)]

(***************************************************************************)
(* The call stack                                                          *)
(*                                                                         *)
(* A frame is a call of print(Value &, size_t), printAttrs, printList or   *)
(* printDerivation with its position pc:                                   *)
(*   print:            "poll" (419-420), "force" (422-429), "dispatch"     *)
(*                     (431-480), "call" (inside printAttrs / printList),  *)
(*                     "ret" (returning)                                   *)
(*   printAttrs:       "entry" (265-282), "loop" (284-297), "child" (292), *)
(*                     "drv" (271)                                         *)
(*   printList:        "entry" (304-310, 327), "loop" (311-328), "child"   *)
(*                     (318)                                               *)
(*   printDerivation:  "coerce" (242-257)                                  *)
(* sorted is printAttrs's local vector; idx is the loop position.          *)
(***************************************************************************)
Frame(fn, v, depth, pc) ==
    [fn |-> fn, v |-> v, depth |-> depth, pc |-> pc, sorted |-> << >>, idx |-> 1]

Top == stack[Len(stack)]

Running == status = "running" /\ exc = "none" /\ stack # << >>

\* The stack after the innermost call returns into print, which then returns
\* itself: nothing follows the switch of lines 431-480.
ReturnInto(n) == [SubSeq(stack, 1, n) EXCEPT ![n].pc = "ret"]

\* The mutant: the call of checkInterrupt moved inside the try block.
InTryWithPoll(f) ==
    \/ (f.fn = "print" /\ f.pc \in {"poll", "force"})
    \/ (f.fn = "printDerivation" /\ f.pc = "coerce")

\* The mutant: no try block around forceValue.
InTryDerivationOnly(f) == f.fn = "printDerivation" /\ f.pc = "coerce"

\* Whether the position of frame f is inside a try block with a handler for
\* BaseError: lines 423-428 and lines 242-260.
InTry(f) ==
    \/ (f.fn = "print" /\ f.pc = "force")
    \/ (f.fn = "printDerivation" /\ f.pc = "coerce")

\* printError_
ErrorMarker == Lit("«error»")

\* The mutant: membership in seen never detected.
NeverSeen(s, v) == FALSE

\* seen && !seen->insert(&v).second: the value was in the set already
AlreadySeen(s, v) == s.engaged /\ v \in s.values

\* The mutant: the value is not recorded.
SeenWithoutInsert(s, v) == s

\* seen after seen && seen->insert(&v)
SeenInsert(s, v) == IF s.engaged THEN [s EXCEPT !.values = @ \cup {v}] ELSE s

\* The mutant: the depth test off by one.
DepthAtMostMax(depth, maxDepth) == depth <= maxDepth

\* depth < options.maxDepth, lines 272 and 310
DepthBelowMax(depth, maxDepth) == depth < maxDepth

\* state.isDerivation(v), a predicate of the evaluator: it answers and does
\* not throw.
isDerivation(v) == graph[v].isDrv

Event(ev, v, depth) == [ev |-> ev, v |-> v, depth |-> depth]

(***************************************************************************)
(* Printer                                                                 *)
(***************************************************************************)
\* The state after Printer(output, state, options): lines 163-165, 484-485.
Init ==
    /\ graph \in Graphs
    /\ options \in OptionSets
    /\ stack = << >>
    /\ output = << >>
    /\ seen = [engaged |-> FALSE, values |-> {}]
    /\ attrsPrinted = 0
    /\ listItemsPrinted = 0
    /\ exc = "none"
    /\ status = "init"
    /\ events = << >>
    /\ string = << >>
    /\ maxLength = 0
    /\ i = 1
    /\ charsPrinted = 0
    /\ str = << >>
    /\ reads = {}
    /\ spc = "idle"

\* print(Value & v), lines 487-500, up to the call print(v, 0)
Start ==
    /\ status = "init"
    /\ attrsPrinted' = 0
    /\ listItemsPrinted' = 0
    /\ seen' = [engaged |-> options.trackRepeated, values |-> {}]
    /\ stack' = << Frame("print", 1, 0, "poll") >>
    /\ status' = "running"
    /\ UNCHANGED <<graph, options, output, exc, events, strVars>>

\* lines 419-420: flush, and checkInterrupt finds nothing pending
PollContinue ==
    /\ Running
    /\ Top.fn = "print" /\ Top.pc = "poll"
    /\ stack' = [stack EXCEPT ![Len(stack)].pc = "force"]
    /\ UNCHANGED <<graph, options, output, seen, attrsPrinted, listItemsPrinted,
                   exc, status, events, strVars>>

\* lines 419-420: checkInterrupt throws Interrupted
PollInterrupt ==
    /\ Running
    /\ Top.fn = "print" /\ Top.pc = "poll"
    /\ exc' = "Interrupted"
    /\ UNCHANGED <<graph, options, stack, output, seen, attrsPrinted,
                   listItemsPrinted, status, events, strVars>>

\* lines 422-424: force is off, or forceValue returns; a thunk is overwritten
\* in place by its value
Force ==
    /\ Running
    /\ Top.fn = "print" /\ Top.pc = "force"
    /\ ~(options.force /\ graph[Top.v].thunk = "fail")
    /\ graph' = IF options.force THEN [graph EXCEPT ![Top.v].thunk = "none"] ELSE graph
    /\ stack' = [stack EXCEPT ![Len(stack)].pc = "dispatch"]
    /\ UNCHANGED <<options, output, seen, attrsPrinted, listItemsPrinted,
                   exc, status, events, strVars>>

\* line 424: forceValue throws
ForceThrow ==
    /\ Running
    /\ Top.fn = "print" /\ Top.pc = "force"
    /\ options.force /\ graph[Top.v].thunk = "fail"
    /\ exc' = "EvalError"
    /\ UNCHANGED <<graph, options, stack, output, seen, attrsPrinted,
                   listItemsPrinted, status, events, strVars>>

\* The frames whose position is inside a try block
Handlers == { k \in 1..Len(stack) : InTry(stack[k]) }

\* The exception reaches the innermost handler: lines 425-427 (printError_,
\* return) or lines 258-259 (printError_, after which printDerivation and
\* then printAttrs return).
Catch ==
    /\ status = "running" /\ exc # "none"
    /\ Handlers # {}
    /\ LET h == CHOOSE k \in Handlers : \A j \in Handlers : j <= k
       IN  /\ output' = Append(output, ErrorMarker)
           /\ stack' = IF stack[h].fn = "print" THEN ReturnInto(h) ELSE ReturnInto(h - 2)
    /\ exc' = "none"
    /\ UNCHANGED <<graph, options, seen, attrsPrinted, listItemsPrinted,
                   status, events, strVars>>

\* No frame handles the exception: it leaves print(Value &)
Escape_ ==
    /\ status = "running" /\ exc # "none"
    /\ Handlers = {}
    /\ stack' = << >>
    /\ status' = "escaped"
    /\ UNCHANGED <<graph, options, output, seen, attrsPrinted, listItemsPrinted,
                   exc, events, strVars>>

\* lines 469-471, printThunk: the value is still a thunk
PrintThunk ==
    /\ Running
    /\ Top.fn = "print" /\ Top.pc = "dispatch"
    /\ graph[Top.v].thunk # "none"
    /\ output' = Append(output, Lit("«thunk»"))
    /\ stack' = [stack EXCEPT ![Len(stack)].pc = "ret"]
    /\ UNCHANGED <<graph, options, seen, attrsPrinted, listItemsPrinted,
                   exc, status, events, strVars>>

\* lines 433-435, printInt
PrintInt ==
    /\ Running
    /\ Top.fn = "print" /\ Top.pc = "dispatch"
    /\ graph[Top.v].thunk = "none" /\ graph[Top.v].kind = "int"
    /\ output' = Append(output, Lit("int"))
    /\ stack' = [stack EXCEPT ![Len(stack)].pc = "ret"]
    /\ UNCHANGED <<graph, options, seen, attrsPrinted, listItemsPrinted,
                   exc, status, events, strVars>>

\* lines 457-463: the call of printAttrs or printList
CallContainer ==
    /\ Running
    /\ Top.fn = "print" /\ Top.pc = "dispatch"
    /\ graph[Top.v].thunk = "none" /\ graph[Top.v].kind \in {"attrs", "list"}
    /\ Len(stack) < MaxStack
    /\ stack' = [stack EXCEPT ![Len(stack)].pc = "call"]
                \o << Frame(IF graph[Top.v].kind = "attrs" THEN "printAttrs" ELSE "printList",
                            Top.v, Top.depth, "entry") >>
    /\ UNCHANGED <<graph, options, output, seen, attrsPrinted, listItemsPrinted,
                   exc, status, events, strVars>>

\* lines 265-268: the attribute set was seen before
AttrsRepeated ==
    /\ Running
    /\ Top.fn = "printAttrs" /\ Top.pc = "entry"
    /\ AlreadySeen(seen, Top.v)
    /\ output' = Append(output, Lit("«repeated»"))
    /\ stack' = ReturnInto(Len(stack) - 1)
    /\ events' = Append(events, Event("repeated", Top.v, Top.depth))
    /\ UNCHANGED <<graph, options, seen, attrsPrinted, listItemsPrinted,
                   exc, status, strVars>>

\* lines 265, 270-271: the derivation shortcut
AttrsDerivation ==
    /\ Running
    /\ Top.fn = "printAttrs" /\ Top.pc = "entry"
    /\ ~AlreadySeen(seen, Top.v)
    /\ seen' = SeenInsert(seen, Top.v)
    /\ options.force /\ options.derivationPaths /\ isDerivation(Top.v)
    /\ stack' = [stack EXCEPT ![Len(stack)].pc = "drv"]
                \o << Frame("printDerivation", Top.v, Top.depth, "coerce") >>
    /\ events' = Append(events, Event("derivation", Top.v, Top.depth))
    /\ UNCHANGED <<graph, options, output, attrsPrinted, listItemsPrinted,
                   exc, status, strVars>>

\* lines 265, 272-282: the set is opened and its attributes sorted
AttrsOpen ==
    /\ Running
    /\ Top.fn = "printAttrs" /\ Top.pc = "entry"
    /\ ~AlreadySeen(seen, Top.v)
    /\ seen' = SeenInsert(seen, Top.v)
    /\ ~(options.force /\ options.derivationPaths /\ isDerivation(Top.v))
    /\ DepthBelowMax(Top.depth, options.maxDepth)
    /\ output' = Append(output, Lit("{ "))
    /\ stack' = [stack EXCEPT ![Len(stack)].pc = "loop",
                              ![Len(stack)].sorted =
                                  SortPairs(graph[Top.v].attrs, options.maxAttrs)]
    /\ events' = Append(events, Event("enumerate", Top.v, Top.depth))
    /\ UNCHANGED <<graph, options, attrsPrinted, listItemsPrinted, exc, status, strVars>>

\* lines 265, 298-299: too deep
AttrsPlaceholder ==
    /\ Running
    /\ Top.fn = "printAttrs" /\ Top.pc = "entry"
    /\ ~AlreadySeen(seen, Top.v)
    /\ seen' = SeenInsert(seen, Top.v)
    /\ ~(options.force /\ options.derivationPaths /\ isDerivation(Top.v))
    /\ ~DepthBelowMax(Top.depth, options.maxDepth)
    /\ output' = Append(output, Lit("{ ... }"))
    /\ stack' = ReturnInto(Len(stack) - 1)
    /\ events' = Append(events, Event("placeholder", Top.v, Top.depth))
    /\ UNCHANGED <<graph, options, attrsPrinted, listItemsPrinted, exc, status, strVars>>

\* printDerivation, lines 243-257: no drvPath attribute, or a store path
DerivationPath ==
    /\ Running
    /\ Top.fn = "printDerivation" /\ Top.pc = "coerce"
    /\ graph[Top.v].drvPath # "fail"
    /\ output' = output \o
          (IF graph[Top.v].drvPath = "ok"
           THEN << Lit("«derivation"), Lit(" "), Lit("/nix/store/path"), Lit("»") >>
           ELSE << Lit("«derivation"), Lit("»") >>)
    /\ stack' = ReturnInto(Len(stack) - 2)
    /\ UNCHANGED <<graph, options, seen, attrsPrinted, listItemsPrinted,
                   exc, status, events, strVars>>

\* printDerivation, line 247: coerceToStorePath throws
DerivationThrow ==
    /\ Running
    /\ Top.fn = "printDerivation" /\ Top.pc = "coerce"
    /\ graph[Top.v].drvPath = "fail"
    /\ exc' = "EvalError"
    /\ UNCHANGED <<graph, options, stack, output, seen, attrsPrinted,
                   listItemsPrinted, status, events, strVars>>

\* lines 284, 297: the loop is over
AttrsClose ==
    /\ Running
    /\ Top.fn = "printAttrs" /\ Top.pc = "loop"
    /\ Top.idx > Len(Top.sorted)
    /\ output' = Append(output, Lit("}"))
    /\ stack' = ReturnInto(Len(stack) - 1)
    /\ UNCHANGED <<graph, options, seen, attrsPrinted, listItemsPrinted,
                   exc, status, events, strVars>>

\* lines 285-288, 297: the budget is used up
AttrsElide ==
    /\ Running
    /\ Top.fn = "printAttrs" /\ Top.pc = "loop"
    /\ Top.idx <= Len(Top.sorted)
    /\ attrsPrinted >= options.maxAttrs
    /\ output' = output \o printElided(Len(Top.sorted) - attrsPrinted,
                                       "attribute", "attributes")
                        \o << Lit("}") >>
    /\ stack' = ReturnInto(Len(stack) - 1)
    /\ UNCHANGED <<graph, options, seen, attrsPrinted, listItemsPrinted,
                   exc, status, events, strVars>>

\* lines 290-292: the name (every name used is a variable name, printed bare),
\* " = ", and the call print(*i.second, depth + 1)
AttrsChild ==
    /\ Running
    /\ Top.fn = "printAttrs" /\ Top.pc = "loop"
    /\ Top.idx <= Len(Top.sorted)
    /\ ~(attrsPrinted >= options.maxAttrs)
    /\ output' = output \o << Lit(Top.sorted[Top.idx][1]), Lit(" = ") >>
    /\ stack' = [stack EXCEPT ![Len(stack)].pc = "child"]
                \o << Frame("print", Top.sorted[Top.idx][2], Top.depth + 1, "poll") >>
    /\ UNCHANGED <<graph, options, seen, attrsPrinted, listItemsPrinted,
                   exc, status, events, strVars>>

\* lines 293-294, after print returns
ReturnToAttrs ==
    /\ Running
    /\ Top.fn = "print" /\ Top.pc = "ret"
    /\ Len(stack) >= 2
    /\ stack[Len(stack) - 1].fn = "printAttrs"
    /\ output' = Append(output, Lit("; "))
    /\ attrsPrinted' = attrsPrinted + 1
    /\ stack' = [SubSeq(stack, 1, Len(stack) - 1) EXCEPT
                    ![Len(stack) - 1].pc = "loop",
                    ![Len(stack) - 1].idx = @ + 1]
    /\ UNCHANGED <<graph, options, seen, listItemsPrinted, exc, status, events, strVars>>

\* v.listSize()
listSize(v) == Len(graph[v].items)

\* line 304: seen && v.listSize() && !seen->insert(&v).second
ListAlreadySeen(v) == listSize(v) # 0 /\ AlreadySeen(seen, v)

\* line 304: the set after the condition is evaluated
ListSeenInsert(v) == IF listSize(v) # 0 THEN SeenInsert(seen, v) ELSE seen

\* lines 304-307: the list was seen before
ListRepeated ==
    /\ Running
    /\ Top.fn = "printList" /\ Top.pc = "entry"
    /\ ListAlreadySeen(Top.v)
    /\ output' = Append(output, Lit("«repeated»"))
    /\ stack' = ReturnInto(Len(stack) - 1)
    /\ events' = Append(events, Event("repeated", Top.v, Top.depth))
    /\ UNCHANGED <<graph, options, seen, attrsPrinted, listItemsPrinted,
                   exc, status, strVars>>

\* lines 304, 309-310: the list is opened
ListOpen ==
    /\ Running
    /\ Top.fn = "printList" /\ Top.pc = "entry"
    /\ ~ListAlreadySeen(Top.v)
    /\ seen' = ListSeenInsert(Top.v)
    /\ DepthBelowMax(Top.depth, options.maxDepth)
    /\ output' = Append(output, Lit("[ "))
    /\ stack' = [stack EXCEPT ![Len(stack)].pc = "loop"]
    /\ events' = Append(events, Event("enumerate", Top.v, Top.depth))
    /\ UNCHANGED <<graph, options, attrsPrinted, listItemsPrinted, exc, status, strVars>>

\* lines 304, 309, 326-328: too deep
ListPlaceholder ==
    /\ Running
    /\ Top.fn = "printList" /\ Top.pc = "entry"
    /\ ~ListAlreadySeen(Top.v)
    /\ seen' = ListSeenInsert(Top.v)
    /\ ~DepthBelowMax(Top.depth, options.maxDepth)
    /\ output' = output \o << Lit("[ "), Lit("... "), Lit("]") >>
    /\ stack' = ReturnInto(Len(stack) - 1)
    /\ events' = Append(events, Event("placeholder", Top.v, Top.depth))
    /\ UNCHANGED <<graph, options, attrsPrinted, listItemsPrinted, exc, status, strVars>>

\* lines 311, 328: the loop is over
ListClose ==
    /\ Running
    /\ Top.fn = "printList" /\ Top.pc = "loop"
    /\ Top.idx > listSize(Top.v)
    /\ output' = Append(output, Lit("]"))
    /\ stack' = ReturnInto(Len(stack) - 1)
    /\ UNCHANGED <<graph, options, seen, attrsPrinted, listItemsPrinted,
                   exc, status, events, strVars>>

\* lines 312-315, 328: the budget is used up
ListElide ==
    /\ Running
    /\ Top.fn = "printList" /\ Top.pc = "loop"
    /\ Top.idx <= listSize(Top.v)
    /\ listItemsPrinted >= options.maxListItems
    /\ output' = output \o printElided(listSize(Top.v) - listItemsPrinted, "item", "items")
                        \o << Lit("]") >>
    /\ stack' = ReturnInto(Len(stack) - 1)
    /\ UNCHANGED <<graph, options, seen, attrsPrinted, listItemsPrinted,
                   exc, status, events, strVars>>

\* lines 317-318: the call print(*elem, depth + 1)
ListChild ==
    /\ Running
    /\ Top.fn = "printList" /\ Top.pc = "loop"
    /\ Top.idx <= listSize(Top.v)
    /\ ~(listItemsPrinted >= options.maxListItems)
    /\ graph[Top.v].items[Top.idx] # 0
    /\ stack' = [stack EXCEPT ![Len(stack)].pc = "child"]
                \o << Frame("print", graph[Top.v].items[Top.idx], Top.depth + 1, "poll") >>
    /\ UNCHANGED <<graph, options, output, seen, attrsPrinted, listItemsPrinted,
                   exc, status, events, strVars>>

\* lines 319-323: a null element
ListNullptr ==
    /\ Running
    /\ Top.fn = "printList" /\ Top.pc = "loop"
    /\ Top.idx <= listSize(Top.v)
    /\ ~(listItemsPrinted >= options.maxListItems)
    /\ graph[Top.v].items[Top.idx] = 0
    /\ output' = output \o << Lit("«nullptr»"), Lit(" ") >>
    /\ listItemsPrinted' = listItemsPrinted + 1
    /\ stack' = [stack EXCEPT ![Len(stack)].idx = @ + 1]
    /\ UNCHANGED <<graph, options, seen, attrsPrinted, exc, status, events, strVars>>

\* lines 322-323, after print returns
ReturnToList ==
    /\ Running
    /\ Top.fn = "print" /\ Top.pc = "ret"
    /\ Len(stack) >= 2
    /\ stack[Len(stack) - 1].fn = "printList"
    /\ output' = Append(output, Lit(" "))
    /\ listItemsPrinted' = listItemsPrinted + 1
    /\ stack' = [SubSeq(stack, 1, Len(stack) - 1) EXCEPT
                    ![Len(stack) - 1].pc = "loop",
                    ![Len(stack) - 1].idx = @ + 1]
    /\ UNCHANGED <<graph, options, seen, attrsPrinted, exc, status, events, strVars>>

\* line 500: print(v, 0) returns to print(Value &), which returns
ReturnTop ==
    /\ Running
    /\ Len(stack) = 1
    /\ Top.fn = "print" /\ Top.pc = "ret"
    /\ stack' = << >>
    /\ status' = "done"
    /\ UNCHANGED <<graph, options, output, seen, attrsPrinted, listItemsPrinted,
                   exc, events, strVars>>

Next ==
    \/ Start \/ PollContinue \/ PollInterrupt \/ Force \/ ForceThrow
    \/ Catch \/ Escape_
    \/ PrintThunk \/ PrintInt \/ CallContainer
    \/ AttrsRepeated \/ AttrsDerivation \/ AttrsOpen \/ AttrsPlaceholder
    \/ DerivationPath \/ DerivationThrow
    \/ AttrsClose \/ AttrsElide \/ AttrsChild \/ ReturnToAttrs
    \/ ListRepeated \/ ListOpen \/ ListPlaceholder
    \/ ListClose \/ ListElide \/ ListChild \/ ListNullptr \/ ReturnToList
    \/ ReturnTop

Spec == Init /\ [][Next]_vars

\* One thread runs the printer: it takes a step whenever it can.
FairSpec == Spec /\ WF_vars(Next)

(***************************************************************************)
(* Properties                                                              *)
(***************************************************************************)
Finished == status \in {"done", "escaped"}

\* The elision notice that reports n
Notice(n, single, plural) ==
    [text |-> "elided", n |-> [hi |-> 0, lo |-> n],
     unit |-> IF n = 1 THEN single ELSE plural]

IsContainerEntry == Running /\ Top.fn \in {"printAttrs", "printList"} /\ Top.pc = "entry"

\* C1: with trackRepeated, the top-level call terminates on every value graph,
\* cyclic ones included, and a container that is already in seen is rendered
\* as the «repeated» marker: nothing is called, no budget is used, seen is
\* left alone.
TerminatesAndMarksRepeated ==
    /\ options.trackRepeated ~> Finished
    /\ [][ (IsContainerEntry /\ seen.engaged /\ Top.v \in seen.values)
             => /\ output' = Append(output, Lit("«repeated»"))
                /\ Len(stack') = Len(stack) - 1
                /\ stack'[Len(stack')].pc = "ret"
                /\ attrsPrinted' = attrsPrinted
                /\ listItemsPrinted' = listItemsPrinted
                /\ seen' = seen ]_vars

\* A cyclic graph printed to the end without a depth limit, the root met again
\* inside itself.
SelfReferencePrinted ==
    /\ status = "done"
    /\ options.trackRepeated
    /\ options.maxDepth = SIZE_MAX
    /\ \E k \in DOMAIN events : events[k].ev = "repeated" /\ events[k].v = 1

AttrsElideStep ==
    /\ Running
    /\ Top.fn = "printAttrs" /\ Top.pc = "loop"
    /\ Top.idx <= Len(Top.sorted)
    /\ attrsPrinted >= options.maxAttrs

ListElideStep ==
    /\ Running
    /\ Top.fn = "printList" /\ Top.pc = "loop"
    /\ Top.idx <= listSize(Top.v)
    /\ listItemsPrinted >= options.maxListItems

\* C2: when a budget is used up while a container is enumerated, one elision
\* notice is written for that container, and the number it reports is the
\* number of that container's children that have not been printed.
ElisionReportsRemaining ==
    [][ /\ AttrsElideStep =>
              output' = output \o << Notice(Len(Top.sorted) - (Top.idx - 1),
                                            "attribute", "attributes"),
                                     Lit("}") >>
        /\ ListElideStep =>
              output' = output \o << Notice(listSize(Top.v) - (Top.idx - 1),
                                            "item", "items"),
                                     Lit("]") >> ]_vars

\* C3: the running counters never exceed their limits.
BudgetsRespected ==
    /\ attrsPrinted <= options.maxAttrs
    /\ listItemsPrinted <= options.maxListItems

RECURSIVE CountText(_, _)
CountText(out, texts) ==
    IF out = << >> THEN 0
    ELSE (IF Head(out).text \in texts THEN 1 ELSE 0) + CountText(Tail(out), texts)

\* Every bracket opened is closed.
Balanced(out) ==
    /\ CountText(out, {"{ "}) = CountText(out, {"}"})
    /\ CountText(out, {"[ "}) = CountText(out, {"]"})

\* C4: an evaluation error raised by forcing a node, or by resolving a
\* derivation's path, is rendered as one error marker by the visit of that
\* node, which then returns without calling anything; the enclosing loop goes
\* on with the next sibling; the error never leaves the call, and at the end
\* every container is closed.
EvalErrorContained ==
    /\ [][ (status = "running" /\ exc = "EvalError")
             => /\ exc' = "none"
                /\ status' = "running"
                /\ output' = Append(output, ErrorMarker)
                /\ \E n \in 1..Len(stack) :
                      /\ stack[n].fn = "print"
                      /\ stack[n].v = Top.v
                      /\ \A k \in (n + 1)..Len(stack) : stack[k].v = Top.v
                      /\ stack' = [SubSeq(stack, 1, n) EXCEPT ![n].pc = "ret"] ]_vars
    /\ [][ (Running /\ Top.fn = "print" /\ Top.pc = "ret" /\ Len(stack) >= 2)
             => /\ Len(stack') = Len(stack) - 1
                /\ stack'[Len(stack')].pc = "loop"
                /\ stack'[Len(stack')].idx = stack[Len(stack')].idx + 1 ]_vars
    /\ [](status = "escaped" => exc # "EvalError")
    /\ [](status = "done" => Balanced(output))

\* The thunk that fails, in the list, in the attribute set: the marker, then
\* the siblings after it, to the end.
ErrorInsideListPrinted ==
    /\ status = "done"
    /\ options.force
    /\ Len(graph) = 5 /\ graph[3].thunk = "fail"
    /\ \E k \in DOMAIN output :
          /\ output[k] = ErrorMarker
          /\ output[k - 1] = Lit("[ ")
          /\ output[k + 2] = Lit("int")
    /\ output[Len(output)] = Lit("}")
    /\ \E k \in DOMAIN output : output[k] = Lit("z")

RootIsForced == graph[1].thunk = "none"

DepthZeroText ==
    /\ graph[1].kind = "attrs" => output = << Lit("{ ... }") >>
    /\ graph[1].kind = "list" => output = << Lit("[ "), Lit("... "), Lit("]") >>

NoChildVisited == \A k \in DOMAIN stack : stack[k].depth = 0

DerivationShortcut(v) == options.force /\ options.derivationPaths /\ graph[v].isDrv

\* C5, as claimed: with maxDepth = 0 an attribute set is printed as { ... } and
\* a list as [ ... ], whatever the other options, and no child is visited.
DepthZeroAlwaysPlaceholder ==
    options.maxDepth = 0 =>
        /\ NoChildVisited
        /\ (status = "done" /\ RootIsForced) => DepthZeroText

\* C5, amended: the same, unless force and derivationPaths are set and the
\* attribute set is a derivation.
DepthZeroPlaceholder ==
    (options.maxDepth = 0 /\ ~DerivationShortcut(1)) =>
        /\ NoChildVisited
        /\ (status = "done" /\ RootIsForced) => DepthZeroText

\* A non-empty attribute set printed as { ... } with every other option on.
DepthZeroAttrsPrinted ==
    /\ status = "done"
    /\ options.maxDepth = 0
    /\ options.force /\ options.derivationPaths /\ options.trackRepeated
    /\ graph[1].kind = "attrs" /\ graph[1].attrs # {}
    /\ output = << Lit("{ ... }") >>

\* C6: a visit begins with the poll, which writes nothing; once the poll
\* throws, nothing more is written, no handler takes the exception, and it
\* leaves the call.
CancellationPropagates ==
    /\ [][ (Len(stack') > Len(stack) /\ stack'[Len(stack')].fn = "print")
             => stack'[Len(stack')].pc = "poll" ]_vars
    /\ [][ (Running /\ Top.fn = "print" /\ Top.pc = "poll") => output' = output ]_vars
    /\ [][ (status = "running" /\ exc = "Interrupted")
             => /\ output' = output
                /\ exc' = "Interrupted"
                /\ status' = "escaped"
                /\ stack' = << >> ]_vars
    /\ [][ status = "escaped" => (status' = "escaped" /\ output' = output) ]_vars

\* Cancelled at the visit of a child, with force on and text already written.
CancelledInsideContainer ==
    /\ status = "escaped"
    /\ exc = "Interrupted"
    /\ options.force
    /\ Len(output) >= 2
    /\ output[Len(output)] = Lit(" = ")

RECURSIVE Unescape(_)
\* The characters a written body stands for: a backslash and the character
\* after it are one character.
Unescape(body) ==
    IF body = << >> THEN << >>
    ELSE IF Head(body).text = "\\"
         THEN IF Len(body) = 1 THEN << "malformed" >>
              ELSE << IF body[2].text = "n" THEN "\n" ELSE body[2].text >>
                   \o Unescape(SubSeq(body, 3, Len(body)))
         ELSE << Head(body).text >> \o Unescape(Tail(body))

\* C7: a string longer than the limit M is written as the escaped first M
\* characters, the closing quote, and one notice that reports L - M, "byte"
\* iff that is 1; a string within the limit is written whole, without notice.
StringTruncation ==
    spc = "done" =>
        LET L == Len(string)
            n == Len(str)
        IN  IF L > maxLength
            THEN /\ n >= 4
                 /\ str[1] = Lit("\"")
                 /\ Unescape(SubSeq(str, 2, n - 3)) = SubSeq(string, 1, maxLength)
                 /\ str[n - 2] = Lit("\"")
                 /\ str[n - 1] = Lit(" ")
                 /\ str[n] = Notice(L - maxLength, "byte", "bytes")
                 /\ charsPrinted = maxLength
            ELSE /\ n >= 2
                 /\ str[1] = Lit("\"")
                 /\ Unescape(SubSeq(str, 2, n - 1)) = string
                 /\ str[n] = Lit("\"")
                 /\ \A k \in DOMAIN str : str[k].text # "elided"

\* A string cut one character short, an escaped character among those written.
OneByteElided ==
    /\ spc = "done"
    /\ Len(string) - maxLength = 1
    /\ maxLength >= 1
    /\ string[1] = "\""
    /\ str[Len(str)].unit = "byte"

\* The names in the order of their characters
KeyRank(k) ==
    CASE k = "Z"     -> 1
      [] k = "_type" -> 2
      [] k = "a"     -> 3
      [] k = "b"     -> 4
      [] k = "c"     -> 5
      [] k = "type"  -> 6
      [] k = "x"     -> 7
      [] k = "y"     -> 8
      [] k = "z"     -> 9

\* The order C8 states
PrintedBefore(k1, k2) ==
    IF options.maxAttrs = SIZE_MAX
    THEN KeyRank(k1) < KeyRank(k2)
    ELSE \/ (k1 \in {"type", "_type"} /\ k2 \notin {"type", "_type"})
         \/ ((k1 \in {"type", "_type"}) = (k2 \in {"type", "_type"})
             /\ KeyRank(k1) < KeyRank(k2))

\* C8: the entries of an attribute set are printed in the order of their names
\* when maxAttrs is unbounded, and otherwise with type and _type first and the
\* order of the names inside each group; what is printed is a prefix of it.
AttrsPrintedInOrder ==
    /\ [](\A k \in DOMAIN stack :
            (stack[k].fn = "printAttrs" /\ stack[k].pc \in {"loop", "child"}) =>
                LET srt == stack[k].sorted
                IN  /\ Len(srt) = Cardinality(graph[stack[k].v].attrs)
                    /\ \A a \in DOMAIN srt : srt[a] \in graph[stack[k].v].attrs
                    /\ \A a, b \in DOMAIN srt :
                          a < b => PrintedBefore(srt[a][1], srt[b][1]))
    /\ [][ (Running /\ Top.fn = "printAttrs" /\ Top.pc = "loop"
              /\ Len(stack') > Len(stack))
             => output' = output \o << Lit(Top.sorted[Top.idx][1]), Lit(" = ") >> ]_vars
    /\ [][ \A k \in DOMAIN stack :
              (stack[k].fn = "printAttrs" /\ stack[k].pc \in {"loop", "child"}
                 /\ k <= Len(stack'))
                => /\ stack'[k].sorted = stack[k].sorted
                   /\ stack'[k].idx \in {stack[k].idx, stack[k].idx + 1} ]_vars

\* Five names under a budget of two: _type and type are printed, and the
\* names that sort before them are about to be elided.
ImportantNamesPrintedFirst ==
    /\ AttrsElideStep
    /\ options.maxAttrs = 2
    /\ Len(Top.sorted) = 5
    /\ Top.idx = 3
    /\ \E k \in DOMAIN output : output[k] = Lit("_type")
    /\ \E k \in DOMAIN output : output[k] = Lit("type")
    /\ \A k \in DOMAIN output : output[k] # Lit("Z") /\ output[k] # Lit("a")

Tracked(v) == graph[v].kind = "attrs" \/ Len(graph[v].items) # 0

Enumerated(v) == \E j \in DOMAIN events : events[j].v = v /\ events[j].ev = "enumerate"

\* C9, as claimed: a container rendered as the depth-limit placeholder is not
\* added to seen, so that a later occurrence of it below maxDepth is
\* enumerated and not rendered as «repeated».
PlaceholderLeavesSeenAlone ==
    \A k \in DOMAIN events :
        events[k].ev = "placeholder" =>
            /\ events[k].v \in seen.values => Enumerated(events[k].v)
            /\ \A j \in DOMAIN events :
                  (j > k /\ events[j].v = events[k].v
                     /\ events[j].depth < options.maxDepth /\ ~Enumerated(events[k].v))
                    => events[j].ev # "repeated"

\* C9, amended: with trackRepeated, an attribute set or non-empty list is
\* added to seen by its first visit, before the depth is looked at; a
\* container rendered as the depth-limit placeholder is in seen, and every
\* later occurrence of it in the call is rendered as «repeated».
PlaceholderIsSeen ==
    seen.engaged =>
        \A k \in DOMAIN events :
            Tracked(events[k].v) =>
                /\ events[k].v \in seen.values
                /\ events[k].ev = "placeholder" =>
                      \A j \in DOMAIN events :
                          (j > k /\ events[j].v = events[k].v)
                            => events[j].ev = "repeated"

\* A container met first at maxDepth and then above it.
RepeatedAfterPlaceholder ==
    \E k, j \in DOMAIN events :
        /\ k < j
        /\ events[k].ev = "placeholder"
        /\ events[j].v = events[k].v
        /\ events[j].depth < options.maxDepth
        /\ events[j].ev = "repeated"

\* C10: printLiteralString dereferences only positions inside the string.
ReadsInsideString == \A p \in reads : 1 <= p /\ p <= Len(string)

====
